---- MODULE Spec2Model ----
(***************************************************************************)
(* A model of crlset.go: the CRLSet file decoder (getHeader, dump,         *)
(* dumpSPKIs), the CRX container prefix decoded by fetch, and              *)
(* zipReader.ReadAt.  Bytes are the integers 0..255; a file, a buffer and  *)
(* a line of output are sequences of bytes.                                *)
(***************************************************************************)
EXTENDS Integers, Sequences, FiniteSets, TLC

\* ------------------------------------------------------------------------
\* Bounds of the model.

\* The most SPKI blocks in the body of a generated CRLSet file.
MaxBlocks == 2

\* The most serial entries in a generated body, over all its blocks.
MaxSerials == 2

\* ------------------------------------------------------------------------
\* Bytes and text.

\* const spkiHashLen = 32
spkiHashLen == 32

\* The characters of three runs of the ASCII table, in code order.
Digits == <<"0","1","2","3","4","5","6","7","8","9">>
Upper == <<"A","B","C","D","E","F","G","H","I","J","K","L","M",
           "N","O","P","Q","R","S","T","U","V","W","X","Y","Z">>
Lower == <<"a","b","c","d","e","f","g","h","i","j","k","l","m",
           "n","o","p","q","r","s","t","u","v","w","x","y","z">>

\* The ASCII codes of the other characters the program reads or writes.
Punctuation ==
  << <<"\t", 9>>, <<"\n", 10>>, <<"!", 33>>, <<"\"", 34>>, <<"+", 43>>,
     <<",", 44>>, <<"/", 47>>, <<":", 58>>, <<"=", 61>>, <<"[", 91>>,
     <<"\\", 92>>, <<"]", 93>>, <<"{", 123>>, <<"}", 125>> >>

\* The position of x in the sequence s, 0 when it is not in it.
IndexOf(s, x) ==
  IF \E k \in 1..Len(s) : s[k] = x THEN CHOOSE k \in 1..Len(s) : s[k] = x ELSE 0

\* The characters of the tables above.
Chars ==
  {Digits[k] : k \in 1..Len(Digits)} \cup {Upper[k] : k \in 1..Len(Upper)}
    \cup {Lower[k] : k \in 1..Len(Lower)}
    \cup {Punctuation[k][1] : k \in 1..Len(Punctuation)}

\* The ASCII code of each character, given as a one-character string.
AsciiTable ==
  [ch \in Chars |->
     IF IndexOf(Digits, ch) > 0 THEN 47 + IndexOf(Digits, ch)
     ELSE IF IndexOf(Upper, ch) > 0 THEN 64 + IndexOf(Upper, ch)
     ELSE IF IndexOf(Lower, ch) > 0 THEN 96 + IndexOf(Lower, ch)
     ELSE (CHOOSE e \in {Punctuation[k] : k \in 1..Len(Punctuation)} : e[1] = ch)[2]]

Ascii(ch) == AsciiTable[ch]

\* The bytes of a text given as a sequence of one-character strings.
Str(chars) == [k \in 1..Len(chars) |-> Ascii(chars[k])]

\* s[from:] of Go: the elements after the first from.
Drop(s, from) == SubSeq(s, from + 1, Len(s))

\* s[:to] of Go: the first to elements.
Take(s, to) == SubSeq(s, 1, to)

\* The sequence of n copies of b.
Repeat(b, n) == [k \in 1..n |-> b]

\* The concatenation of a sequence of sequences.
RECURSIVE Flatten(_)
Flatten(ss) == IF ss = <<>> THEN <<>> ELSE Head(ss) \o Flatten(Tail(ss))

\* The lower-case hexadecimal digits fmt's %x writes.
HexDigits == Str(<<"0","1","2","3","4","5","6","7","8","9","a","b","c","d","e","f">>)

\* fmt's %x of a byte slice: two lower-case digits per byte.
Hex(bs) ==
  [k \in 1..(2 * Len(bs)) |->
     IF k % 2 = 1 THEN HexDigits[(bs[(k + 1) \div 2] \div 16) + 1]
                  ELSE HexDigits[(bs[k \div 2] % 16) + 1]]

\* A uint32 is held as its two 16-bit halves: the checker's integers end at
\* 2^31 - 1, short of the range of a uint32.
U32(n) == [hi |-> (n \div 65536) % 65536, lo |-> n % 65536]

\* a < b of two uint32.
U32Less(a, b) == a.hi < b.hi \/ (a.hi = b.hi /\ a.lo < b.lo)

\* a + 1 of a uint32, which wraps to 0 after 2^32 - 1.
U32Inc(a) ==
  IF a.lo < 65535 THEN [a EXCEPT !.lo = a.lo + 1]
  ELSE [hi |-> (a.hi + 1) % 65536, lo |-> 0]

\* uint32(c[0]) | uint32(c[1])<<8 | uint32(c[2])<<16 | uint32(c[3])<<24
U32LE(c) == [hi |-> c[3] + c[4] * 256, lo |-> c[1] + c[2] * 256]

\* ------------------------------------------------------------------------
\* encoding/json, as getHeader uses it: json.Unmarshal(headerBytes, &header).
\* The header texts of the model are objects whose members are arrays of
\* strings or non-negative integers, written without white space or escapes,
\* and the prefixes of such texts; on these the operators below decide what
\* json.Unmarshal decides.

\* The names of crlSetHeader's fields, as bytes.
NameSequence == Str(<<"S","e","q","u","e","n","c","e">>)
NameNumParents == Str(<<"N","u","m","P","a","r","e","n","t","s">>)
NameBlockedSPKIs == Str(<<"B","l","o","c","k","e","d","S","P","K","I","s">>)
NameKnownInterceptionSPKIs == Str(<<"K","n","o","w","n","I","n","t","e","r","c","e","p","t","i","o","n","S","P","K","I","s">>)
NameBlockedInterceptionSPKIs == Str(<<"B","l","o","c","k","e","d","I","n","t","e","r","c","e","p","t","i","o","n","S","P","K","I","s">>)

\* type crlSetHeader struct, zero-valued (var header crlSetHeader).
ZeroHeader ==
  [ Sequence |-> 0, NumParents |-> 0, BlockedSPKIs |-> <<>>,
    KnownInterceptionSPKIs |-> <<>>, BlockedInterceptionSPKIs |-> <<>> ]

IsDigit(b) == b >= 48 /\ b <= 57

JsonFail == [ok |-> FALSE, next |-> 0, val |-> <<>>]

JsonOk(next, val) == [ok |-> TRUE, next |-> next, val |-> val]

\* The least element of a non-empty set of integers.
Min(S) == CHOOSE e \in S : \A o \in S : e <= o

\* The string whose opening quote is b[p] and whose closing quote is the first
\* of ends.
JsonStringTo(b, p, ends) ==
  IF ends = {} THEN JsonFail
  ELSE JsonOk(Min(ends) + 1, SubSeq(b, p + 1, Min(ends) - 1))

\* A JSON string starting at b[p]: the quote, the characters to the next quote.
JsonString(b, p) ==
  IF p > Len(b) \/ b[p] # Ascii("\"") THEN JsonFail
  ELSE JsonStringTo(b, p, {q \in (p + 1)..Len(b) : b[q] = Ascii("\"")})

\* The strings of an array after its "[", up to and including its "]": s is
\* the string just read, acc the strings before it.
RECURSIVE JsonStrings(_, _, _)
JsonStringsAfter(b, s, acc) ==
  IF ~s.ok \/ s.next > Len(b) THEN JsonFail
  ELSE IF b[s.next] = Ascii(",") THEN JsonStrings(b, s.next + 1, Append(acc, s.val))
  ELSE IF b[s.next] = Ascii("]") THEN JsonOk(s.next + 1, Append(acc, s.val))
  ELSE JsonFail

JsonStrings(b, p, acc) == JsonStringsAfter(b, JsonString(b, p), acc)

\* The value of a run of digits, most significant first.
RECURSIVE Decimal(_)
Decimal(ds) ==
  IF ds = <<>> THEN 0 ELSE 10 * Decimal(Take(ds, Len(ds) - 1)) + (ds[Len(ds)] - 48)

\* A value of the given kind, read up to b[next - 1].
JsonKind(kind, r) ==
  IF r.ok THEN JsonOk(r.next, [kind |-> kind, v |-> r.val]) ELSE JsonFail

\* The number whose digits are b[p..q].
JsonNumberTo(b, p, q) ==
  IF q > p /\ b[p] = 48 THEN JsonFail ELSE JsonOk(q + 1, Decimal(SubSeq(b, p, q)))

\* A JSON value starting at b[p]: an array of strings or a non-negative integer.
JsonValue(b, p) ==
  IF p > Len(b) THEN JsonFail
  ELSE IF b[p] = Ascii("[")
       THEN IF p + 1 <= Len(b) /\ b[p + 1] = Ascii("]")
            THEN JsonKind("array", JsonOk(p + 2, <<>>))
            ELSE JsonKind("array", JsonStrings(b, p + 1, <<>>))
  ELSE IF IsDigit(b[p])
       THEN JsonKind("number",
                     JsonNumberTo(b, p, CHOOSE e \in p..Len(b) :
                                          /\ \A k \in p..e : IsDigit(b[k])
                                          /\ (e = Len(b) \/ ~IsDigit(b[e + 1]))))
  ELSE JsonFail

\* The members of an object after its "{", up to and including its "}": v is
\* the value just read, of the member named key, acc the members before it.
RECURSIVE JsonMembers(_, _, _)
JsonMembersAfter(b, key, v, acc) ==
  IF ~v.ok \/ v.next > Len(b) THEN JsonFail
  ELSE IF b[v.next] = Ascii(",")
       THEN JsonMembers(b, v.next + 1,
                        Append(acc, [key |-> key, kind |-> v.val.kind, v |-> v.val.v]))
  ELSE IF b[v.next] = Ascii("}")
       THEN JsonOk(v.next + 1,
                   Append(acc, [key |-> key, kind |-> v.val.kind, v |-> v.val.v]))
  ELSE JsonFail

JsonMemberNamed(b, k, acc) ==
  IF ~k.ok \/ k.next > Len(b) \/ b[k.next] # Ascii(":") THEN JsonFail
  ELSE JsonMembersAfter(b, k.val, JsonValue(b, k.next + 1), acc)

JsonMembers(b, p, acc) == JsonMemberNamed(b, JsonString(b, p), acc)

\* The object o, if it is read to the end of b.
JsonWhole(b, o) == IF o.ok /\ o.next = Len(b) + 1 THEN o ELSE JsonFail

\* A whole JSON text: one object and nothing after it.  The empty text is no
\* JSON text ("unexpected end of JSON input").
JsonObject(b) ==
  IF Len(b) < 2 \/ b[1] # Ascii("{") THEN JsonFail
  ELSE IF b[2] = Ascii("}") THEN JsonWhole(b, JsonOk(3, <<>>))
  ELSE JsonWhole(b, JsonMembers(b, 2, <<>>))

\* Whether a member's value has the type of the field its key names; a member
\* that names no field is ignored, so it fits.
MemberFits(m) ==
  IF m.key \in {NameSequence, NameNumParents} THEN m.kind = "number"
  ELSE IF m.key \in {NameBlockedSPKIs, NameKnownInterceptionSPKIs,
                     NameBlockedInterceptionSPKIs} THEN m.kind = "array"
  ELSE TRUE

\* The header after one member is stored into it.
StoreMember(h, m) ==
  IF ~MemberFits(m) THEN h
  ELSE IF m.key = NameSequence THEN [h EXCEPT !.Sequence = m.v]
  ELSE IF m.key = NameNumParents THEN [h EXCEPT !.NumParents = m.v]
  ELSE IF m.key = NameBlockedSPKIs THEN [h EXCEPT !.BlockedSPKIs = m.v]
  ELSE IF m.key = NameKnownInterceptionSPKIs
       THEN [h EXCEPT !.KnownInterceptionSPKIs = m.v]
  ELSE IF m.key = NameBlockedInterceptionSPKIs
       THEN [h EXCEPT !.BlockedInterceptionSPKIs = m.v]
  ELSE h

\* The header after the members are stored into it, in order.
RECURSIVE StoreMembers(_, _)
StoreMembers(h, ms) ==
  IF ms = <<>> THEN h ELSE StoreMembers(StoreMember(h, Head(ms)), Tail(ms))

\* What json.Unmarshal makes of the parsed text o.
Unmarshalled(o, h) ==
  IF ~o.ok THEN [ok |-> FALSE, header |-> h]
  ELSE [ok |-> \A k \in 1..Len(o.val) : MemberFits(o.val[k]),
        header |-> StoreMembers(h, o.val)]

\* json.Unmarshal(headerBytes, &header): err (ok = FALSE) on a text that is no
\* JSON or whose value does not fit its field, and the header it leaves.
JsonUnmarshal(headerBytes, h) == Unmarshalled(JsonObject(headerBytes), h)

\* ------------------------------------------------------------------------
\* The state.

VARIABLES
  cmd,            \* os.Args[1]: the operation main dispatches to
  fileReadable,   \* whether ioutil.ReadFile(filename) succeeds
  file,           \* the bytes of the CRLSet file
  certificate,    \* the certificate argument of dump and what becomes of it
  blocks,         \* the SPKI blocks the file's body was written from
  declared,       \* the serial count written in the last block's count field
  keep,           \* how many bytes of the written body the file holds
  pc,             \* the place in the running operation
  header,         \* header crlSetHeader
  c,              \* c []byte: the unread rest of the file
  spki,           \* spki []byte: the filter, empty for none
  current_spki,   \* current_spki []byte
  spkiMatches,    \* spkiMatches bool
  numSerials,     \* numSerials uint32
  i,              \* the loop variable of the serial loop, or of the field loop
  serialLen,      \* serialLen int
  spkiLists,      \* the three SPKI lists the file's header was written from
  versionReply,   \* fetch: what the version request brings
  crxReply,       \* fetch: what the request for crxURL brings
  archive,        \* fetch: what archive/zip makes of zipBytes
  intBits,        \* the width of int on the build: 32 or 64
  z,              \* ReadAt: the receiver, the bytes of the zipReader
  dest,           \* ReadAt: the destination p as the caller passes it
  pos,            \* ReadAt: the offset asked for
  crxURL,         \* fetch
  version,        \* fetch
  crx,            \* fetch: the unread part of the bytes.Buffer
  crxHdr,         \* fetch: var header crxHeader
  zipBytes,       \* fetch
  p,              \* ReadAt: the destination
  copied,         \* ReadAt: the count returned
  panicked,       \* a run-time panic ended the program
  field,          \* dumpSPKIs: the index i of the header field looked at
  entry,          \* dumpSPKIs: the index of the entry of spkis looked at
  stdout,         \* the lines written to os.Stdout
  stderr,         \* the messages written to os.Stderr
  result          \* what the operation returns

inputVars ==
  <<cmd, fileReadable, file, certificate, blocks, declared, keep, spkiLists,
    versionReply, crxReply, archive, intBits, z, dest, pos>>
dumpVars == <<c, spki, current_spki, spkiMatches, numSerials, i, serialLen>>
spkisVars == <<field, entry>>
fetchVars == <<crxURL, version, crx, crxHdr, zipBytes>>
readAtVars == <<p, copied, panicked>>
notDumpVars == <<header, spkisVars, fetchVars, readAtVars>>
notSpkisVars == <<fetchVars, readAtVars>>
vars ==
  <<inputVars, pc, header, dumpVars, spkisVars, fetchVars, readAtVars,
    stdout, stderr, result>>

\* A message on os.Stderr: its text, and the bytes a %s of it shows when they
\* are bytes of the input.
Msg(text) == [text |-> text, arg |-> <<>>]

\* ------------------------------------------------------------------------
\* CRLSet files: the layout getHeader and dump read.

\* The four bytes of a little-endian uint32.
U32Bytes(n) == << n.lo % 256, n.lo \div 256, n.hi % 256, n.hi \div 256 >>

\* The two bytes of a little-endian uint16.
U16Bytes(n) == << n % 256, (n \div 256) % 256 >>

\* One serial entry: its length byte and its bytes.
EncodeSerial(serial) == <<Len(serial)>> \o serial

\* One block: the SPKI hash, the serial count (a uint32), the serial entries.
EncodeBlock(b, count) ==
  b.fp \o U32Bytes(count)
       \o Flatten([k \in 1..Len(b.serials) |-> EncodeSerial(b.serials[k])])

\* The body written from the blocks bs, the last block's count field holding
\* count.
RECURSIVE EncodeBody(_, _)
EncodeBody(bs, count) ==
  IF bs = <<>> THEN <<>>
  ELSE IF Len(bs) = 1 THEN EncodeBlock(bs[1], count)
  ELSE EncodeBlock(bs[1], U32(Len(bs[1].serials))) \o EncodeBody(Tail(bs), count)

\* A file: the header length, the header text, the body.
EncodeFile(headerText, body) == U16Bytes(Len(headerText)) \o headerText \o body

\* The SPKI hashes and serials of the generated files.
Fingerprints == {Repeat(0, spkiHashLen), Repeat(255, spkiHashLen)}
SerialValues == {<<>>, <<171>>, <<1, 2>>}

\* The blocks with n serials.
BlocksOf(n) == [fp : Fingerprints, serials : [1..n -> SerialValues]]

\* The sequences of n blocks with at most budget serials in all.
RECURSIVE BlockSeqsOf(_, _)
BlockSeqsOf(n, budget) ==
  IF n = 0 THEN {<<>>}
  ELSE UNION {{<<b>> \o rest : b \in BlocksOf(k), rest \in BlockSeqsOf(n - 1, budget - k)} :
              k \in 0..budget}

BlockSeqs == UNION {BlockSeqsOf(n, MaxSerials) : n \in 0..MaxBlocks}

\* The largest serial count a block can declare: 2^32 - 1.
MaxUint32 == [hi |-> 65535, lo |-> 65535]

\* The length of the body before its last block.
LastStart(bs) ==
  IF bs = <<>> THEN 0 ELSE Len(EncodeBody(Take(bs, Len(bs) - 1), U32(0)))

\* The serials of the last block of bs.
LastSerials(bs) == bs[Len(bs)].serials

\* What the file holds of a body written from the blocks bs, as <<declared
\* count, bytes kept>>: the whole body, or the body cut anywhere inside its
\* last block, or the whole body with a last block that declares more serials
\* than it holds.
BodyVariants(bs) ==
  IF bs = <<>> THEN {<<U32(0), 0>>}
  ELSE {<<U32(Len(LastSerials(bs))), k>> :
           k \in (LastStart(bs) + 1)..Len(EncodeBody(bs, U32(0)))}
       \cup {<<d, Len(EncodeBody(bs, U32(0)))>> :
                d \in {U32(Len(LastSerials(bs)) + 1), MaxUint32}}

\* The bytes of the body written from bs that the file holds.
BodyBytes(bs, count, kept) == Take(EncodeBody(bs, count), kept)

\* The header texts of the generated files: the smallest object, one with a
\* member for a field, the empty text, a text cut short.
TextEmptyObject == Str(<<"{", "}">>)
TextSequence == Str(<<"{", "\"">>) \o NameSequence \o Str(<<"\"", ":", "7", "}">>)
TextCut == Str(<<"{">>)
HeaderTexts == {TextEmptyObject, TextSequence, <<>>, TextCut}

\* What the certificate argument of dump can be: none given, a file that
\* cannot be read, one that is no certificate, a certificate with its SPKI
\* hash (h.Sum(nil): the 32 bytes of a SHA-256).
NoCertificate == [kind |-> "none", digest |-> <<>>]

Certificates ==
  {[kind |-> k, digest |-> <<>>] : k \in {"none", "unreadable", "unparsable"}}
  \cup {[kind |-> "certificate", digest |-> f] : f \in Fingerprints}

\* ------------------------------------------------------------------------
\* getHeader.

\* A failed getHeader: the message it writes, and the named results as they
\* are at the bare return.
HeaderFailure(text, h) ==
  [ok |-> FALSE, header |-> h, rest |-> <<>>, msgs |-> <<Msg(text)>>]

\* if err := json.Unmarshal(headerBytes, &header); err != nil { ... return }
\* return header, c, true
HeaderParsed(u, rest) ==
  IF ~u.ok THEN HeaderFailure("Failed to parse header: %s", u.header)
  ELSE [ok |-> TRUE, header |-> u.header, rest |-> rest, msgs |-> <<>>]

\* c = c[2:]; if len(c) < headerLen { ... }; headerBytes := c[:headerLen];
\* c = c[headerLen:]
HeaderOfLength(headerLen, c2) ==
  IF Len(c2) < headerLen THEN HeaderFailure("CRLSet truncated at header\n", ZeroHeader)
  ELSE HeaderParsed(JsonUnmarshal(Take(c2, headerLen), ZeroHeader), Drop(c2, headerLen))

\* getHeader(filename): the named results (header, rest, ok) and the message
\* it writes when it fails.
getHeader(readable, bytes) ==
  IF ~readable THEN HeaderFailure("Failed to read CRLSet: %s\n", ZeroHeader)
  ELSE IF Len(bytes) < 2
       THEN HeaderFailure("CRLSet truncated at header length\n", ZeroHeader)
  ELSE HeaderOfLength(bytes[1] + bytes[2] * 256, Drop(bytes, 2))

\* ------------------------------------------------------------------------
\* dump.

\* dump returns: nothing of the operation runs after it.
Return(value) ==
  /\ pc' = "done"
  /\ result' = value

\* PairLine without the tab that ends the record.
PairLineNoTab(fp, serial) ==
  Str(<<"\\", "\\", "x">>) \o Hex(fp) \o Str(<<"\t", "\\", "\\", "x">>)
    \o Hex(serial) \o Str(<<"\n">>)

\* fmt.Printf("\\\\x%x\t\\\\x%x\t\n", current_spki, serial)
PairLine(fp, serial) ==
  Str(<<"\\", "\\", "x">>) \o Hex(fp) \o Str(<<"\t", "\\", "\\", "x">>)
    \o Hex(serial) \o Str(<<"\t", "\n">>)

\* fmt.Printf("%x\n", serial)
SerialLine(serial) == Hex(serial) \o Str(<<"\n">>)

\* Printed with the filter's match never asked for: every serial is written.
PrintedUnmatched(filter, matches, current, serial) ==
  IF Len(filter) = 0 THEN <<PairLine(current, serial)>> ELSE <<SerialLine(serial)>>

\* if len(spki) == 0 { fmt.Printf(...) } else if spkiMatches { fmt.Printf(...) }:
\* the lines written for one serial.
Printed(filter, matches, current, serial) ==
  IF Len(filter) = 0 THEN <<PairLine(current, serial)>>
  ELSE IF matches THEN <<SerialLine(serial)>>
  ELSE <<>>

\* _, c, ok := getHeader(filename); if !ok { return false }
DumpGetHeader ==
  /\ cmd = "dump"
  /\ pc = "getHeader"
  /\ LET h == getHeader(fileReadable, file)
     IN /\ stderr' = stderr \o h.msgs
        /\ IF h.ok
           THEN /\ c' = h.rest
                /\ pc' = "certificate"
                /\ UNCHANGED result
           ELSE /\ Return(FALSE)
                /\ UNCHANGED c
  /\ UNCHANGED <<inputVars, notDumpVars, spki, current_spki, spkiMatches, numSerials,
                 i, serialLen, stdout>>

\* var spki []byte; if len(certificateFilename) > 0 { ... spki = h.Sum(nil) }
DumpCertificate ==
  /\ cmd = "dump"
  /\ pc = "certificate"
  /\ CASE certificate.kind = "none" ->
            /\ pc' = "loop"
            /\ UNCHANGED <<spki, stderr, result>>
       [] certificate.kind = "unreadable" ->
            /\ stderr' = Append(stderr, Msg("Failed to read certificate: %s\n"))
            /\ Return(FALSE)
            /\ UNCHANGED spki
       [] certificate.kind = "unparsable" ->
            /\ stderr' = Append(stderr, Msg("Failed to parse certificate: %s\n"))
            /\ Return(FALSE)
            /\ UNCHANGED spki
       [] certificate.kind = "certificate" ->
            /\ spki' = certificate.digest
            /\ pc' = "loop"
            /\ UNCHANGED <<stderr, result>>
  /\ UNCHANGED <<inputVars, notDumpVars, c, current_spki, spkiMatches, numSerials,
                 i, serialLen, stdout>>

\* DumpSpkiHash taking a rest too short for an SPKI hash for the end of the input.
DumpSpkiHashSilentEnd ==
  /\ cmd = "dump"
  /\ pc = "loop"
  /\ IF Len(c) < spkiHashLen
     THEN /\ Return(TRUE)
          /\ UNCHANGED <<c, current_spki, spkiMatches, stderr>>
     ELSE /\ spkiMatches' = (spki = Take(c, spkiHashLen))
          /\ current_spki' = IF Len(spki) = 0 THEN Take(c, spkiHashLen) ELSE <<>>
          /\ c' = Drop(c, spkiHashLen)
          /\ pc' = "count"
          /\ UNCHANGED <<stderr, result>>
  /\ UNCHANGED <<inputVars, notDumpVars, spki, numSerials, i, serialLen, stdout>>

\* for len(c) > 0 { var current_spki []byte; ...;
\*                  spkiMatches := bytes.Equal(spki, c[:spkiHashLen]); ...;
\*                  c = c[spkiHashLen:]
DumpSpkiHash ==
  /\ cmd = "dump"
  /\ pc = "loop"
  /\ IF Len(c) = 0
     THEN /\ Return(TRUE)
          /\ UNCHANGED <<c, current_spki, spkiMatches, stderr>>
     ELSE IF Len(c) < spkiHashLen
     THEN /\ stderr' = Append(stderr, Msg("CRLSet truncated at SPKI hash\n"))
          /\ Return(FALSE)
          /\ current_spki' = <<>>
          /\ UNCHANGED <<c, spkiMatches>>
     ELSE /\ spkiMatches' = (spki = Take(c, spkiHashLen))
          /\ current_spki' = IF Len(spki) = 0 THEN Take(c, spkiHashLen) ELSE <<>>
          /\ c' = Drop(c, spkiHashLen)
          /\ pc' = "count"
          /\ UNCHANGED <<stderr, result>>
  /\ UNCHANGED <<inputVars, notDumpVars, spki, numSerials, i, serialLen, stdout>>

\* DumpSerialCount stepping over three bytes of the count, not four.
DumpSerialCountShort ==
  /\ cmd = "dump"
  /\ pc = "count"
  /\ IF Len(c) < 4
     THEN /\ stderr' = Append(stderr, Msg("CRLSet truncated at serial count\n"))
          /\ Return(FALSE)
          /\ UNCHANGED <<c, numSerials, i>>
     ELSE /\ numSerials' = U32LE(c)
          /\ c' = Drop(c, 3)
          /\ i' = U32(0)
          /\ pc' = "serialLen"
          /\ UNCHANGED <<stderr, result>>
  /\ UNCHANGED <<inputVars, notDumpVars, spki, current_spki, spkiMatches, serialLen, stdout>>

\* numSerials := uint32(c[0]) | ... ; c = c[4:]; for i := uint32(0); ...
DumpSerialCount ==
  /\ cmd = "dump"
  /\ pc = "count"
  /\ IF Len(c) < 4
     THEN /\ stderr' = Append(stderr, Msg("CRLSet truncated at serial count\n"))
          /\ Return(FALSE)
          /\ UNCHANGED <<c, numSerials, i>>
     ELSE /\ numSerials' = U32LE(c)
          /\ c' = Drop(c, 4)
          /\ i' = U32(0)
          /\ pc' = "serialLen"
          /\ UNCHANGED <<stderr, result>>
  /\ UNCHANGED <<inputVars, notDumpVars, spki, current_spki, spkiMatches, serialLen, stdout>>

\* DumpSerialLen reading the length byte and leaving it in c.
DumpSerialLenPeek ==
  /\ cmd = "dump"
  /\ pc = "serialLen"
  /\ IF ~U32Less(i, numSerials)
     THEN /\ pc' = "loop"
          /\ UNCHANGED <<c, serialLen, stderr, result>>
     ELSE IF Len(c) < 1
     THEN /\ stderr' = Append(stderr, Msg("CRLSet truncated at serial length\n"))
          /\ Return(FALSE)
          /\ UNCHANGED <<c, serialLen>>
     ELSE /\ serialLen' = c[1]
          /\ pc' = "serial"
          /\ UNCHANGED <<c, stderr, result>>
  /\ UNCHANGED <<inputVars, notDumpVars, spki, current_spki, spkiMatches, numSerials,
                 i, stdout>>

\* i < numSerials; ...; serialLen := int(c[0]); c = c[1:]
DumpSerialLen ==
  /\ cmd = "dump"
  /\ pc = "serialLen"
  /\ IF ~U32Less(i, numSerials)
     THEN /\ pc' = "loop"
          /\ UNCHANGED <<c, serialLen, stderr, result>>
     ELSE IF Len(c) < 1
     THEN /\ stderr' = Append(stderr, Msg("CRLSet truncated at serial length\n"))
          /\ Return(FALSE)
          /\ UNCHANGED <<c, serialLen>>
     ELSE /\ serialLen' = c[1]
          /\ c' = Drop(c, 1)
          /\ pc' = "serial"
          /\ UNCHANGED <<stderr, result>>
  /\ UNCHANGED <<inputVars, notDumpVars, spki, current_spki, spkiMatches, numSerials,
                 i, stdout>>

\* DumpSerial naming the stage of the length byte when the serial is cut.
DumpSerialWrongStage ==
  /\ cmd = "dump"
  /\ pc = "serial"
  /\ IF Len(c) < serialLen
     THEN /\ stderr' = Append(stderr, Msg("CRLSet truncated at serial length\n"))
          /\ Return(FALSE)
          /\ UNCHANGED <<c, i, stdout>>
     ELSE /\ stdout' = stdout \o Printed(spki, spkiMatches, current_spki,
                                         Take(c, serialLen))
          /\ c' = Drop(c, serialLen)
          /\ i' = U32Inc(i)
          /\ pc' = "serialLen"
          /\ UNCHANGED <<stderr, result>>
  /\ UNCHANGED <<inputVars, notDumpVars, spki, current_spki, spkiMatches, numSerials,
                 serialLen>>

\* DumpSerial writing what is left of a cut serial before it fails.
DumpSerialPrintsFirst ==
  /\ cmd = "dump"
  /\ pc = "serial"
  /\ IF Len(c) < serialLen
     THEN /\ stderr' = Append(stderr, Msg("CRLSet truncated at serial\n"))
          /\ Return(FALSE)
          /\ stdout' = stdout \o Printed(spki, spkiMatches, current_spki, c)
          /\ UNCHANGED <<c, i>>
     ELSE /\ stdout' = stdout \o Printed(spki, spkiMatches, current_spki,
                                         Take(c, serialLen))
          /\ c' = Drop(c, serialLen)
          /\ i' = U32Inc(i)
          /\ pc' = "serialLen"
          /\ UNCHANGED <<stderr, result>>
  /\ UNCHANGED <<inputVars, notDumpVars, spki, current_spki, spkiMatches, numSerials,
                 serialLen>>

\* if len(c) < serialLen { ... }; the Printf of the mode; c = c[serialLen:]; i++
DumpSerial ==
  /\ cmd = "dump"
  /\ pc = "serial"
  /\ IF Len(c) < serialLen
     THEN /\ stderr' = Append(stderr, Msg("CRLSet truncated at serial\n"))
          /\ Return(FALSE)
          /\ UNCHANGED <<c, i, stdout>>
     ELSE /\ stdout' = stdout \o Printed(spki, spkiMatches, current_spki,
                                         Take(c, serialLen))
          /\ c' = Drop(c, serialLen)
          /\ i' = U32Inc(i)
          /\ pc' = "serialLen"
          /\ UNCHANGED <<stderr, result>>
  /\ UNCHANGED <<inputVars, notDumpVars, spki, current_spki, spkiMatches, numSerials,
                 serialLen>>

dump ==
  \/ DumpGetHeader
  \/ DumpCertificate
  \/ DumpSpkiHash
  \/ DumpSerialCount
  \/ DumpSerialLen
  \/ DumpSerial

\* The state before the operation runs.
\* var header crxHeader
ZeroCrxHeader == [Magic |-> <<0, 0, 0, 0>>, Version |-> U32(0), HeaderLen |-> U32(0)]

\* The command makes no request and builds for 64 bits.
NoFetch ==
  /\ versionReply = [kind |-> "getError", apps |-> <<>>]
  /\ crxReply = [kind |-> "getError", bytes |-> <<>>]
  /\ archive = [kind |-> "notZip", crlSet |-> <<>>]
  /\ intBits = 64

\* The command calls no ReadAt.
NoReadAt ==
  /\ z = <<>>
  /\ dest = <<>>
  /\ pos = 0

Start ==
  /\ pc = CASE cmd = "fetch" -> "version"
            [] cmd = "ReadAt" -> "ReadAt"
            [] OTHER -> "getHeader"
  /\ header = ZeroHeader
  /\ c = <<>>
  /\ spki = <<>>
  /\ current_spki = <<>>
  /\ spkiMatches = FALSE
  /\ numSerials = U32(0)
  /\ i = U32(0)
  /\ serialLen = 0
  /\ field = 0
  /\ entry = 0
  /\ crxURL = ""
  /\ version = ""
  /\ crx = <<>>
  /\ crxHdr = ZeroCrxHeader
  /\ zipBytes = <<>>
  /\ p = dest
  /\ copied = 0
  /\ panicked = FALSE
  /\ stdout = <<>>
  /\ stderr = <<>>
  /\ result = FALSE

\* The block of the concrete scenario: SPKI hash 00 x 32, serials AB and 0102.
ScenarioBlocks == << [fp |-> Repeat(0, spkiHashLen), serials |-> << <<171>>, <<1, 2>> >>] >>
\* dump <file> [<cert file>]: a file with the smallest header and any body,
\* no certificate or the one with the SPKI hash 00 x 32; the scenario's body
\* behind every header text, with every kind of certificate argument; files
\* that end before their body.
InitDump ==
  /\ cmd = "dump"
  /\ \/ \E bs \in BlockSeqs :
          \E v \in BodyVariants(bs),
             cert \in {NoCertificate,
                       [kind |-> "certificate", digest |-> Repeat(0, spkiHashLen)]} :
            /\ fileReadable = TRUE
            /\ file = EncodeFile(TextEmptyObject, BodyBytes(bs, v[1], v[2]))
            /\ certificate = cert
            /\ blocks = bs /\ declared = v[1] /\ keep = v[2]
     \/ \E text \in HeaderTexts, cert \in Certificates :
          /\ fileReadable = TRUE
          /\ file = EncodeFile(text, EncodeBody(ScenarioBlocks, U32(2)))
          /\ certificate = cert
          /\ blocks = ScenarioBlocks /\ declared = U32(2)
          /\ keep = Len(EncodeBody(ScenarioBlocks, U32(2)))
     \/ \E readable \in BOOLEAN,
           bytes \in {<<>>, <<2>>, <<3, 0>> \o TextEmptyObject} :
          /\ fileReadable = readable
          /\ file = bytes
          /\ certificate = NoCertificate
          /\ blocks = <<>> /\ declared = U32(0) /\ keep = 0
  /\ spkiLists = <<(<<>>), (<<>>), (<<>>)>>
  /\ NoFetch
  /\ NoReadAt
  /\ Start

Next == dump

Spec == InitDump /\ [][Next]_vars

\* ------------------------------------------------------------------------
\* What dump is to make of a file, told from the blocks the file was written
\* from and not from the run.

\* The body the file holds.
Body == BodyBytes(blocks, declared, keep)

\* The run is a dump whose header decodes and whose certificate argument, if
\* one is given, yields an SPKI hash: the run reads the body.
ReadsBody ==
  /\ cmd = "dump"
  /\ fileReadable
  /\ file \in {EncodeFile(TextEmptyObject, Body), EncodeFile(TextSequence, Body)}
  /\ certificate.kind \in {"none", "certificate"}

\* The body is a run of whole blocks, each declaring the serials it holds.
WholeBody ==
  \/ blocks = <<>>
  \/ /\ declared = U32(Len(LastSerials(blocks)))
     /\ keep = Len(EncodeBody(blocks, declared))

\* How many bytes of its last block the body holds.
LastKept == keep - LastStart(blocks)

\* The length of the first n entries of the serial list ss.
RECURSIVE EntriesLen(_, _)
EntriesLen(ss, n) ==
  IF n = 0 THEN 0 ELSE EntriesLen(ss, n - 1) + 1 + Len(ss[n])

\* How many entries of its last block the body holds whole.
EntriesKept ==
  LET ss == LastSerials(blocks)
      held == {n \in 0..Len(ss) : spkiHashLen + 4 + EntriesLen(ss, n) <= LastKept}
  IN IF held = {} THEN 0 ELSE CHOOSE n \in held : \A m \in held : m <= n

\* The lines of the serials ss of a block with SPKI hash fp, in the mode the
\* certificate argument selects.
BlockLines(fp, ss) ==
  IF certificate.kind = "none" THEN [k \in 1..Len(ss) |-> PairLine(fp, ss[k])]
  ELSE IF fp = certificate.digest THEN [k \in 1..Len(ss) |-> SerialLine(ss[k])]
  ELSE <<>>

\* The lines of the blocks bs, in order.
RECURSIVE BlocksLines(_)
BlocksLines(bs) ==
  IF bs = <<>> THEN <<>>
  ELSE BlockLines(Head(bs).fp, Head(bs).serials) \o BlocksLines(Tail(bs))

\* The run ended with a report of a cut body.
EndedTruncated(stage) ==
  /\ pc = "done"
  /\ result = FALSE
  /\ stderr = <<Msg(stage)>>

\* C1 as stated: a filtered dump of a whole body writes the serials of one
\* block whose SPKI hash is the filter, and nothing when there is none.
C1_OneBlock ==
  (pc = "done" /\ ReadsBody /\ WholeBody /\ certificate.kind = "certificate") =>
    /\ result = TRUE
    /\ stderr = <<>>
    /\ IF \E k \in 1..Len(blocks) : blocks[k].fp = certificate.digest
       THEN \E k \in 1..Len(blocks) :
              /\ blocks[k].fp = certificate.digest
              /\ stdout = BlockLines(blocks[k].fp, blocks[k].serials)
       ELSE stdout = <<>>

\* C1 as amended: a filtered dump of a whole body succeeds, reports nothing,
\* and writes the serials of every block whose SPKI hash is the filter, block
\* after block and in each block's order; it writes nothing when no block has
\* that hash.
C1_EveryMatchingBlock ==
  (pc = "done" /\ ReadsBody /\ WholeBody /\ certificate.kind = "certificate") =>
    /\ result = TRUE
    /\ stderr = <<>>
    /\ stdout = BlocksLines(blocks)
    /\ (\A k \in 1..Len(blocks) : blocks[k].fp # certificate.digest) => stdout = <<>>

\* A filtered dump has ended on a body of two blocks of which only the first
\* has the filter's hash, and has written that block's serial.
C1_Witness ==
  /\ pc = "done" /\ ReadsBody /\ WholeBody /\ certificate.kind = "certificate"
  /\ Len(blocks) = 2
  /\ blocks[1].fp = certificate.digest /\ blocks[2].fp # certificate.digest
  /\ blocks[1].serials = << <<1, 2>> >> /\ blocks[2].serials = << <<171>> >>
  /\ stdout = << SerialLine(<<1, 2>>) >>

\* C2: when the body ends 1 to 35 bytes into a block's SPKI hash and serial
\* count, dump fails and reports the stage: the SPKI hash for up to 31 bytes,
\* the serial count for 32 to 35.
C2_HeaderTruncation ==
  (pc = "done" /\ ReadsBody /\ blocks # <<>>
     /\ LastKept >= 1 /\ LastKept <= spkiHashLen + 3) =>
    IF LastKept < spkiHashLen
    THEN EndedTruncated("CRLSet truncated at SPKI hash\n")
    ELSE EndedTruncated("CRLSet truncated at serial count\n")

\* A dump has ended on a body that holds one whole block and then the 32
\* bytes of an SPKI hash and no byte of the count.
C2_Witness ==
  /\ pc = "done" /\ ReadsBody
  /\ Len(blocks) = 2 /\ LastKept = spkiHashLen
  /\ result = FALSE

\* C3: when the body ends inside a block's serial entries, dump fails and
\* reports the first field it cannot read whole: the serial length when the
\* body ends where the length byte of a declared entry should be, the serial
\* when the length byte is there and fewer bytes than it counts follow.
C3_EntryTruncation ==
  (pc = "done" /\ ReadsBody /\ blocks # <<>> /\ ~WholeBody
     /\ LastKept >= spkiHashLen + 4) =>
    IF LastKept = spkiHashLen + 4 + EntriesLen(LastSerials(blocks), EntriesKept)
    THEN EndedTruncated("CRLSet truncated at serial length\n")
    ELSE EndedTruncated("CRLSet truncated at serial\n")

\* A dump has ended on a block that declares three serials and holds two.
C3_Witness ==
  /\ pc = "done" /\ ReadsBody
  /\ blocks # <<>> /\ Len(LastSerials(blocks)) = 2 /\ declared = U32(3)
  /\ EntriesKept = 2
  /\ stderr = <<Msg("CRLSet truncated at serial length\n")>>

\* The blocks of the body with the last one holding only the entries the body
\* holds whole.
BlocksRead ==
  IF blocks = <<>> THEN <<>>
  ELSE [blocks EXCEPT ![Len(blocks)].serials = Take(LastSerials(blocks), EntriesKept)]

\* C4 as stated: when dump fails on a cut body, it has written no record of
\* the block the body is cut in, only the records of the blocks before it.
C4_NothingOfCutBlock ==
  (pc = "done" /\ ReadsBody /\ blocks # <<>> /\ ~WholeBody) =>
    /\ result = FALSE
    /\ stdout = BlocksLines(Take(blocks, Len(blocks) - 1))

\* C4 as amended: when dump fails on a cut body, it has written the records
\* of the entries it read whole and no other: those of the blocks before the
\* cut and those of the cut block that end before the cut (in filtered mode,
\* of the blocks with the filter's hash); of the entry the cut is found in it
\* has written nothing.
C4_WholeEntriesOnly ==
  (pc = "done" /\ ReadsBody /\ blocks # <<>> /\ ~WholeBody) =>
    /\ result = FALSE
    /\ Len(stderr) = 1
    /\ stdout = BlocksLines(BlocksRead)

\* An unfiltered dump has failed in the second serial of a block and has
\* written the record of the first.
C4_Witness ==
  /\ pc = "done" /\ ReadsBody /\ ~WholeBody /\ certificate.kind = "none"
  /\ Len(blocks) = 1 /\ Len(LastSerials(blocks)) = 2 /\ EntriesKept = 1
  /\ stderr = <<Msg("CRLSet truncated at serial\n")>>
  /\ stdout = <<PairLine(blocks[1].fp, LastSerials(blocks)[1])>>

\* The scenario's file with a header length of 0, and with the header {}.
ScenarioFileNoHeader == <<0, 0>> \o EncodeBody(ScenarioBlocks, U32(2))
ScenarioFileEmptyObject == <<2, 0, 123, 125>> \o EncodeBody(ScenarioBlocks, U32(2))

\* The scenario's records as dump writes them: \\x and 64 zeros, a tab, \\x
\* and the serial's digits, a tab, a line end.
ScenarioPairAB ==
  <<92, 92, 120>> \o Repeat(48, 64) \o <<9, 92, 92, 120, 97, 98, 9, 10>>
ScenarioPair0102 ==
  <<92, 92, 120>> \o Repeat(48, 64) \o <<9, 92, 92, 120, 48, 49, 48, 50, 9, 10>>

\* What the scenario expects of a dump that has ended.
ScenarioOutput ==
  /\ result = TRUE
  /\ stderr = <<>>
  /\ certificate.kind = "none" => stdout = <<ScenarioPairAB, ScenarioPair0102>>
  /\ certificate.digest = Repeat(0, 32) => stdout = << <<97, 98, 10>>, <<48, 49, 48, 50, 10>> >>
  /\ certificate.digest = Repeat(255, 32) => stdout = <<>>

\* C5 as stated: the scenario's file with a header length of 0 decodes, and
\* dump writes the scenario's records.
C5_EmptyHeaderDecodes ==
  (pc = "done" /\ fileReadable /\ file = ScenarioFileNoHeader
     /\ certificate.kind \in {"none", "certificate"}) => ScenarioOutput

\* C5 as amended: the scenario's block behind the header {} (header length 2)
\* decodes, and dump writes the two records unfiltered, ab and 0102 for the
\* filter 00 x 32, nothing for the filter FF x 32; behind a header length of 0
\* getHeader fails to parse the header, and dump fails and writes nothing.
C5_Scenario ==
  /\ (pc = "done" /\ fileReadable /\ file = ScenarioFileEmptyObject
        /\ certificate.kind \in {"none", "certificate"}) => ScenarioOutput
  /\ (pc = "done" /\ fileReadable /\ file = ScenarioFileNoHeader) =>
        /\ result = FALSE
        /\ stdout = <<>>
        /\ stderr = <<Msg("Failed to parse header: %s")>>

\* An unfiltered dump of the scenario's block behind the header {} has ended
\* and has written two records.
C5_Witness ==
  /\ pc = "done" /\ fileReadable /\ file = ScenarioFileEmptyObject
  /\ certificate.kind = "none"
  /\ Len(stdout) = 2

\* Whether s is what is left of t after some of its first elements.
IsSuffix(s, t) == Len(s) <= Len(t) /\ s = Drop(t, Len(t) - Len(s))

\* C6: on a file whose header decodes and whose body is a run of whole
\* blocks, getHeader leaves the whole body to read; every step of dump leaves
\* a rest of what it found, shorter by the field it read (32 bytes of SPKI
\* hash, 4 of count, 1 of length, then the serial's length); and dump ends
\* with success and nothing left, so the bytes read add up to the body.
C6_ConsumesBody ==
  [][(ReadsBody /\ WholeBody) =>
       /\ pc = "getHeader" => c' = Body
       /\ pc # "getHeader" => IsSuffix(c', c)
       /\ (pc = "loop" /\ pc' = "count") => Len(c') = Len(c) - 32
       /\ (pc = "count" /\ pc' = "serialLen") => Len(c') = Len(c) - 4
       /\ (pc = "serialLen" /\ pc' = "serial") => Len(c') = Len(c) - 1
       /\ (pc = "serial" /\ pc' = "serialLen") => Len(c') = Len(c) - serialLen
       /\ pc' = "done" => (result' = TRUE /\ Len(c') = 0 /\ stderr' = <<>>)]_vars

\* A dump has read a whole body of two blocks with a serial each to its end.
C6_Witness ==
  /\ pc = "done" /\ ReadsBody /\ WholeBody
  /\ Len(blocks) = 2 /\ Len(blocks[1].serials) = 1 /\ Len(blocks[2].serials) = 1
  /\ result = TRUE /\ c = <<>>

\* A bound on the steps the decode loop of dump has left: three for each
\* byte unread and one to three for the place in the loop.
Steps ==
  CASE pc = "loop" -> 3 * Len(c) + 1
    [] pc = "count" -> 3 * Len(c) + 2
    [] pc = "serialLen" -> 3 * Len(c) + 2
    [] pc = "serial" -> 3 * Len(c) + 3
    [] OTHER -> 0

\* The messages of the decode loop.
TruncationMessages ==
  {Msg("CRLSet truncated at SPKI hash\n"), Msg("CRLSet truncated at serial count\n"),
   Msg("CRLSet truncated at serial length\n"), Msg("CRLSet truncated at serial\n")}

\* C10: on every body, whole or not, with a filter or without, the decode
\* loop of dump ends, with success and no message or with failure and one
\* truncation message: each step of the loop lowers a bound that is at most
\* three times the bytes unread plus three, and the serials read in a block
\* never outnumber the bytes read after its count, whatever count it declares.
C10_LoopEnds ==
  /\ [][(ReadsBody /\ pc \in {"loop", "count", "serialLen", "serial"}) =>
          Steps' < Steps]_vars
  /\ [](ReadsBody =>
          /\ pc \in {"serialLen", "serial"} =>
               /\ i.hi = 0
               /\ i.lo + spkiHashLen + 4 <= Len(Body) - Len(c)
          /\ pc = "done" =>
               \/ result = TRUE /\ stderr = <<>> /\ c = <<>>
               \/ result = FALSE /\ Len(stderr) = 1 /\ stderr[1] \in TruncationMessages)

\* A dump has failed on a block that declares 2^32 - 1 serials and holds one
\* of no bytes.
C10_Witness ==
  /\ pc = "done" /\ ReadsBody
  /\ numSerials = MaxUint32
  /\ blocks # <<>> /\ LastSerials(blocks) = << <<>> >>
  /\ i = U32(1)
  /\ stderr = <<Msg("CRLSet truncated at serial length\n")>>


\* ------------------------------------------------------------------------
\* dumpSPKIs.

MaxEntries == 3

\* base64.StdEncoding: the value of a character of the alphabet, -1 for any
\* other character.
Base64Value(b) ==
  IF b >= 65 /\ b <= 90 THEN b - 65
  ELSE IF b >= 97 /\ b <= 122 THEN b - 97 + 26
  ELSE IF b >= 48 /\ b <= 57 THEN b - 48 + 52
  ELSE IF b = 43 THEN 62
  ELSE IF b = 47 THEN 63
  ELSE -1

Base64Pad == 61

Base64Fail == [ok |-> FALSE, bytes |-> <<>>]

\* The bytes of one quantum of four characters, of which the last pad are
\* padding.
Base64Quantum(q, pad) ==
  LET v == [k \in 1..4 |-> IF k > 4 - pad THEN 0 ELSE Base64Value(q[k])]
      three == <<v[1] * 4 + v[2] \div 16,
                 (v[2] % 16) * 16 + v[3] \div 4,
                 (v[3] % 4) * 64 + v[4]>>
  IN Take(three, 3 - pad)

\* The padding of a quantum: -1 when the quantum is no base64.  Padding is
\* legal at the end of the last quantum only, one or two characters of it.
Base64Padding(q, last) ==
  LET bad(k) == Base64Value(q[k]) < 0
  IN IF bad(1) \/ bad(2) THEN -1
     ELSE IF ~bad(3) /\ ~bad(4) THEN 0
     ELSE IF ~last THEN -1
     ELSE IF ~bad(3) /\ q[4] = Base64Pad THEN 1
     ELSE IF q[3] = Base64Pad /\ q[4] = Base64Pad THEN 2
     ELSE -1

RECURSIVE Base64Quanta(_, _)
Base64Quanta(s, done) ==
  IF Len(s) = 0 THEN [ok |-> TRUE, bytes |-> done]
  ELSE IF Len(s) < 4 THEN Base64Fail
  ELSE IF Base64Padding(Take(s, 4), Len(s) = 4) < 0 THEN Base64Fail
  ELSE Base64Quanta(Drop(s, 4),
                    done \o Base64Quantum(Take(s, 4), Base64Padding(Take(s, 4), Len(s) = 4)))

\* base64.StdEncoding.DecodeString(spki); line ends inside the text are
\* skipped by the decoder.
DecodeString(s) ==
  Base64Quanta(SelectSeq(s, LAMBDA b : b # 10 /\ b # 13), <<>>)

\* reflect.TypeOf(header): the fields of crlSetHeader in their order.
HeaderFields ==
  <<[name |-> NameSequence, type |-> "int"],
    [name |-> NameNumParents, type |-> "int"],
    [name |-> NameBlockedSPKIs, type |-> "[]string"],
    [name |-> NameKnownInterceptionSPKIs, type |-> "[]string"],
    [name |-> NameBlockedInterceptionSPKIs, type |-> "[]string"]>>

\* v.Field(i).Interface()
FieldValue(h, k) ==
  CASE k = 1 -> h.Sequence
    [] k = 2 -> h.NumParents
    [] k = 3 -> h.BlockedSPKIs
    [] k = 4 -> h.KnownInterceptionSPKIs
    [] k = 5 -> h.BlockedInterceptionSPKIs

\* strings.HasSuffix(s, suffix)
HasSuffix(s, suffix) ==
  /\ Len(s) >= Len(suffix)
  /\ Drop(s, Len(s) - Len(suffix)) = suffix

SuffixSPKIs == Str(<<"S", "P", "K", "I", "s">>)

\* fmt.Fprintf(os.Stderr, text, arg)
MsgOf(text, arg) == [text |-> text, arg |-> arg]

\* fmt.Printf("\t\t\\\\x%s\n", hex.EncodeToString(spkiBytes))
SpkiLine(spkiBytes) ==
  Str(<<"\t", "\t", "\\", "\\", "x">>) \o Hex(spkiBytes) \o Str(<<"\n">>)

\* header, _, ok := getHeader(filename); if !ok { return false }
SpkisGetHeader ==
  /\ cmd = "dumpSPKIs"
  /\ pc = "getHeader"
  /\ LET h == getHeader(fileReadable, file)
     IN /\ stderr' = stderr \o h.msgs
        /\ IF h.ok
           THEN /\ header' = h.header
                /\ pc' = "field"
                /\ UNCHANGED result
           ELSE /\ Return(FALSE)
                /\ UNCHANGED header
  /\ UNCHANGED <<inputVars, dumpVars, notSpkisVars, spkisVars, stdout>>

\* for i := 0; i < v.NumField(); i++ { if !strings.HasSuffix(...) { continue }
\* ... spkis, ok := v.Field(i).Interface().([]string) ... }; return true
SpkisField ==
  /\ cmd = "dumpSPKIs"
  /\ pc = "field"
  /\ IF field >= Len(HeaderFields)
     THEN /\ Return(TRUE)
          /\ UNCHANGED <<field, stderr>>
     ELSE IF ~HasSuffix(HeaderFields[field + 1].name, SuffixSPKIs)
     THEN /\ field' = field + 1
          /\ UNCHANGED <<pc, result, stderr>>
     ELSE IF HeaderFields[field + 1].type # "[]string"
     THEN /\ stderr' = Append(stderr,
                         MsgOf("field %q is a %s and not the expected []string\n",
                               HeaderFields[field + 1].name))
          /\ field' = field + 1
          /\ UNCHANGED <<pc, result>>
     ELSE /\ pc' = "spki"
          /\ UNCHANGED <<field, result, stderr>>
  /\ entry' = 0
  /\ UNCHANGED <<inputVars, header, dumpVars, notSpkisVars, stdout>>

\* SpkisEntry giving up the list at the first entry that does not decode.
SpkisEntryGivesUp ==
  /\ cmd = "dumpSPKIs"
  /\ pc = "spki"
  /\ IF entry >= Len(FieldValue(header, field + 1))
     THEN /\ field' = field + 1
          /\ pc' = "field"
          /\ UNCHANGED <<entry, stdout, stderr>>
     ELSE LET spkiText == FieldValue(header, field + 1)[entry + 1]
          IN IF ~DecodeString(spkiText).ok
             THEN /\ stderr' = Append(stderr, MsgOf("%s is not a valid SPKI\n", spkiText))
                  /\ field' = field + 1
                  /\ pc' = "field"
                  /\ UNCHANGED <<entry, stdout>>
             ELSE /\ stdout' = Append(stdout, SpkiLine(DecodeString(spkiText).bytes))
                  /\ entry' = entry + 1
                  /\ UNCHANGED <<field, pc, stderr>>
  /\ UNCHANGED <<inputVars, header, dumpVars, notSpkisVars, result>>

\* for _, spki := range spkis { spkiBytes, err := DecodeString(spki);
\* if err != nil { Fprintf(...); continue }; Printf(...) }
SpkisEntry ==
  /\ cmd = "dumpSPKIs"
  /\ pc = "spki"
  /\ IF entry >= Len(FieldValue(header, field + 1))
     THEN /\ field' = field + 1
          /\ pc' = "field"
          /\ UNCHANGED <<entry, stdout, stderr>>
     ELSE LET spkiText == FieldValue(header, field + 1)[entry + 1]
          IN /\ IF ~DecodeString(spkiText).ok
                THEN /\ stderr' = Append(stderr, MsgOf("%s is not a valid SPKI\n", spkiText))
                     /\ UNCHANGED stdout
                ELSE /\ stdout' = Append(stdout, SpkiLine(DecodeString(spkiText).bytes))
                     /\ UNCHANGED stderr
             /\ entry' = entry + 1
             /\ UNCHANGED <<field, pc>>
  /\ UNCHANGED <<inputVars, header, dumpVars, notSpkisVars, result>>

dumpSPKIs ==
  \/ SpkisGetHeader
  \/ SpkisField
  \/ SpkisEntry

\* The entries the generated headers list, each with what it encodes: the
\* digest of 32 zero bytes, a short text with one character of padding, a text
\* that is no whole quantum, a text with a character outside the alphabet.
EntryZeroDigest ==
  [text |-> Repeat(65, 43) \o <<61>>, valid |-> TRUE,
   hex |-> Repeat(48, 64)]
EntryShort ==
  [text |-> Str(<<"q", "8", "0", "=">>), valid |-> TRUE,
   hex |-> Str(<<"a", "b", "c", "d">>)]
EntryOddLength ==
  [text |-> Str(<<"A">>), valid |-> FALSE, hex |-> <<>>]
EntryBadCharacter ==
  [text |-> Str(<<"q", "!", "0", "=">>), valid |-> FALSE, hex |-> <<>>]

Entries == {EntryZeroDigest, EntryShort, EntryOddLength, EntryBadCharacter}

\* The lists of at most budget entries.
RECURSIVE EntryLists(_)
EntryLists(budget) ==
  IF budget = 0 THEN {<<>>}
  ELSE {<<>>} \cup {<<e>> \o l : e \in Entries, l \in EntryLists(budget - 1)}

\* The text of a header that lists the entries of the three lists.
RECURSIVE TextStrings(_)
TextStrings(l) ==
  IF l = <<>> THEN <<>>
  ELSE Str(<<"\"">>) \o l[1].text \o Str(<<"\"">>)
       \o (IF Len(l) > 1 THEN Str(<<",">>) ELSE <<>>) \o TextStrings(Tail(l))

TextList(name, l) ==
  Str(<<"\"">>) \o name \o Str(<<"\"", ":", "[">>) \o TextStrings(l) \o Str(<<"]">>)

TextHeader(lists) ==
  Str(<<"{", "\"">>) \o NameSequence \o Str(<<"\"", ":", "7", ",">>)
    \o TextList(NameBlockedSPKIs, lists[1]) \o Str(<<",">>)
    \o TextList(NameKnownInterceptionSPKIs, lists[2]) \o Str(<<",">>)
    \o TextList(NameBlockedInterceptionSPKIs, lists[3]) \o Str(<<"}">>)

\* A header whose BlockedSPKIs member is no list.
TextNoList ==
  Str(<<"{", "\"">>) \o NameBlockedSPKIs \o Str(<<"\"", ":", "7", "}">>)

InitSPKIs ==
  /\ cmd = "dumpSPKIs"
  /\ certificate = NoCertificate
  /\ blocks = ScenarioBlocks
  /\ declared = U32(Len(LastSerials(ScenarioBlocks)))
  /\ keep = Len(EncodeBody(ScenarioBlocks, declared))
  /\ \/ /\ fileReadable = TRUE
        /\ \E l1 \in EntryLists(MaxEntries) :
             \E l2 \in EntryLists(MaxEntries - Len(l1)) :
               \E l3 \in EntryLists(MaxEntries - Len(l1) - Len(l2)) :
                 /\ spkiLists = <<l1, l2, l3>>
                 /\ file = EncodeFile(TextHeader(spkiLists),
                                      BodyBytes(blocks, declared, keep))
     \/ /\ spkiLists = <<(<<>>), (<<>>), (<<>>)>>
        /\ \E readable \in BOOLEAN, text \in HeaderTexts \cup {TextNoList} :
             /\ fileReadable = readable
             /\ file = EncodeFile(text, BodyBytes(blocks, declared, keep))
  /\ NoFetch
  /\ NoReadAt
  /\ Start

NextSPKIs == dumpSPKIs

SpecSPKIs == InitSPKIs /\ [][NextSPKIs]_vars

\* The entries of the three lists in the order dumpSPKIs meets them.
ListedEntries == spkiLists[1] \o spkiLists[2] \o spkiLists[3]

\* The line written for an entry that decodes.
EntryLine(e) == <<9, 9, 92, 92, 120>> \o e.hex \o <<10>>

\* The diagnostic written for an entry that does not decode.
EntryDiagnostic(e) == [text |-> "%s is not a valid SPKI\n", arg |-> e.text]

RECURSIVE LinesOf(_)
LinesOf(l) ==
  IF l = <<>> THEN <<>>
  ELSE (IF l[1].valid THEN <<EntryLine(l[1])>> ELSE <<>>) \o LinesOf(Tail(l))

RECURSIVE DiagnosticsOf(_)
DiagnosticsOf(l) ==
  IF l = <<>> THEN <<>>
  ELSE (IF l[1].valid THEN <<>> ELSE <<EntryDiagnostic(l[1])>>) \o DiagnosticsOf(Tail(l))

\* C8: when the header decodes, dumpSPKIs ends with success, having printed
\* the digest of every listed entry that is valid base64, in the order of the
\* lists, and having written one diagnostic for every entry that is not; an
\* entry that does not decode costs neither the entries after it nor the
\* overall result.
C8_SkipAndReport ==
  (cmd = "dumpSPKIs" /\ pc = "done" /\ getHeader(fileReadable, file).ok) =>
    /\ result = TRUE
    /\ stdout = LinesOf(ListedEntries)
    /\ stderr = DiagnosticsOf(ListedEntries)
    /\ Len(stdout) + Len(stderr) = Len(ListedEntries)

\* A list of three entries whose second does not decode was dumped: two
\* digests and one diagnostic.
C8_Witness ==
  /\ cmd = "dumpSPKIs"
  /\ pc = "done"
  /\ result = TRUE
  /\ spkiLists[1] = <<EntryZeroDigest, EntryBadCharacter, EntryShort>>
  /\ Len(stdout) = 2
  /\ Len(stderr) = 1


\* ------------------------------------------------------------------------
\* zipReader.ReadAt.

MaxBuf == 3

\* copy(dst, src): the destination after the copy.
Copy(dst, src) ==
  [k \in 1..Len(dst) |-> IF k <= Len(src) THEN src[k] ELSE dst[k]]

\* copy(dst, src): the count it returns.
CopyCount(dst, src) == IF Len(dst) < Len(src) THEN Len(dst) ELSE Len(src)

\* func (z zipReader) ReadAt(p []byte, pos int64) (int, error).  The slice
\* expression []byte(z)[int(pos):] panics when int(pos) is beyond len(z).
\* The offsets of the model are small, so int(pos) is pos on every build.
ReadAt ==
  /\ cmd = "ReadAt"
  /\ pc = "ReadAt"
  /\ pc' = "done"
  /\ IF pos < 0
     THEN /\ copied' = 0
          /\ UNCHANGED <<p, panicked>>
     ELSE IF pos > Len(z)
     THEN /\ panicked' = TRUE
          /\ UNCHANGED <<p, copied>>
     ELSE /\ p' = Copy(p, Drop(z, pos))
          /\ copied' = CopyCount(p, Drop(z, pos))
          /\ UNCHANGED panicked
  /\ UNCHANGED <<inputVars, header, dumpVars, spkisVars, fetchVars,
                 stdout, stderr, result>>

\* The byte sequences of length at most len over two byte values.
RECURSIVE Buffers(_)
Buffers(len) ==
  IF len = 0 THEN {<<>>}
  ELSE {<<>>} \cup {<<b>> \o r : b \in {1, 2}, r \in Buffers(len - 1)}

\* The command runs no dump: no file, no certificate, no blocks.
NoFile ==
  /\ fileReadable = FALSE
  /\ file = <<>>
  /\ certificate = NoCertificate
  /\ blocks = <<>>
  /\ declared = U32(0)
  /\ keep = 0
  /\ spkiLists = <<(<<>>), (<<>>), (<<>>)>>

InitReadAt ==
  /\ cmd = "ReadAt"
  /\ NoFile
  /\ NoFetch
  /\ z \in Buffers(MaxBuf)
  /\ \E len \in 0..MaxBuf : dest = Repeat(0, len)
  /\ pos \in (-2)..(MaxBuf + 2)
  /\ Start

NextReadAt == ReadAt

SpecReadAt == InitReadAt /\ [][NextReadAt]_vars


\* The destination and the count the claim describes for a call that reads
\* at an offset of zero or more.
ClampedSource == IF pos >= Len(z) THEN <<>> ELSE Drop(z, pos)

\* C9: ReadAt never fails: a negative offset returns 0 and leaves the
\* destination as it was; an offset of zero or more copies
\* min(len(p), len(z) - pos) bytes from pos on, none when pos is at or
\* beyond the end of the buffer, and returns that count.
C9_NeverFails ==
  (cmd = "ReadAt" /\ pc = "done") =>
    /\ ~panicked
    /\ pos < 0 => (copied = 0 /\ p = dest)
    /\ pos >= 0 =>
         /\ copied = Min({Len(dest), Len(ClampedSource)})
         /\ p = [k \in 1..Len(dest) |->
                   IF k <= copied THEN z[pos + k] ELSE dest[k]]

\* C9, the calls that do return: for every offset up to the end of the
\* buffer ReadAt returns what the claim describes.
C9_UpToTheEnd ==
  (cmd = "ReadAt" /\ pc = "done" /\ pos <= Len(z)) => C9_NeverFails

\* A call with an offset beyond the end of the buffer has ended.
C9_Witness ==
  /\ cmd = "ReadAt"
  /\ pc = "done"
  /\ pos > Len(z)
  /\ panicked


\* ------------------------------------------------------------------------
\* fetch.

MaxPayload == 3

crlSetAppId == "hfnkpimlhhgieaddgfemjhofmfblmnib"

\* []byte("Cr24")
MagicCr24 == Str(<<"C", "r", "2", "4">>)

\* The size of a crxHeader as binary.Read reads it: Magic, Version and
\* HeaderLen, four bytes each.
CrxHeaderSize == 4 + 4 + 4

\* for _, app := range reply.Apps { if app.AppId == crlSetAppId { ...; break } }:
\* the updatecheck of the first app with the id, with empty strings when
\* there is none.
RECURSIVE UpdateCheckOf(_)
UpdateCheckOf(apps) ==
  IF apps = <<>> THEN [URL |-> "", Version |-> ""]
  ELSE IF apps[1].AppId = crlSetAppId
       THEN [URL |-> apps[1].URL, Version |-> apps[1].Version]
  ELSE UpdateCheckOf(Tail(apps))

\* resp, err := http.Get(buildVersionRequestURL()) ... if len(crxURL) == 0 {...}
FetchVersion ==
  /\ cmd = "fetch"
  /\ pc = "version"
  /\ CASE versionReply.kind = "getError" ->
            /\ stderr' = Append(stderr, Msg("Failed to get current version: %s\n"))
            /\ Return(FALSE)
            /\ UNCHANGED <<crxURL, version>>
       [] versionReply.kind = "readError" ->
            /\ stderr' = Append(stderr, Msg("Failed to read version reply: %s\n"))
            /\ Return(FALSE)
            /\ UNCHANGED <<crxURL, version>>
       [] versionReply.kind = "xmlError" ->
            /\ stderr' = Append(stderr, Msg("Failed to parse version reply: %s\n"))
            /\ Return(FALSE)
            /\ UNCHANGED <<crxURL, version>>
       [] versionReply.kind = "reply" ->
            /\ crxURL' = UpdateCheckOf(versionReply.apps).URL
            /\ version' = UpdateCheckOf(versionReply.apps).Version
            /\ IF crxURL' = ""
               THEN /\ stderr' = stderr \o
                        <<MsgOf("Downloading CRLSet version %s\n", version'),
                          Msg("Failed to parse Omaha response\n")>>
                    /\ Return(FALSE)
               ELSE /\ stderr' = Append(stderr,
                                   MsgOf("Downloading CRLSet version %s\n", version'))
                    /\ pc' = "crx"
                    /\ UNCHANGED result
  /\ UNCHANGED <<inputVars, header, dumpVars, spkisVars, readAtVars,
                 crx, crxHdr, zipBytes, stdout>>

\* resp, err = http.Get(crxURL) ... crx := bytes.NewBuffer(crxBytes)
FetchCrx ==
  /\ cmd = "fetch"
  /\ pc = "crx"
  /\ CASE crxReply.kind = "getError" ->
            /\ stderr' = Append(stderr, Msg("Failed to get CRX: %s\n"))
            /\ Return(FALSE)
            /\ UNCHANGED crx
       [] crxReply.kind = "readError" ->
            /\ stderr' = Append(stderr, Msg("Failed to download CRX: %s\n"))
            /\ Return(FALSE)
            /\ UNCHANGED crx
       [] crxReply.kind = "bytes" ->
            /\ crx' = crxReply.bytes
            /\ pc' = "crxHeader"
            /\ UNCHANGED <<stderr, result>>
  /\ UNCHANGED <<inputVars, header, dumpVars, spkisVars, readAtVars,
                 crxURL, version, crxHdr, zipBytes, stdout>>

\* int(header.HeaderLen) < 0: an int of 32 bits holds the top bit of the
\* uint32 as its sign, an int of 64 bits holds every uint32 as it is.
IntIsNegative(u, bits) == bits = 32 /\ u.hi >= 32768

\* LooksLikeCrx with the magic never compared.
LooksLikeCrxAnyMagic(hdr, bits) == ~IntIsNegative(hdr.HeaderLen, bits)

\* !(!bytes.Equal(header.Magic[:], []byte("Cr24")) || int(header.HeaderLen) < 0)
LooksLikeCrx(hdr, bits) ==
  /\ hdr.Magic = MagicCr24
  /\ ~IntIsNegative(hdr.HeaderLen, bits)

\* len(crx.Next(int(header.HeaderLen))): Next returns what is left of the
\* buffer when less than the count asked for is left.
NextLen(buf, count) ==
  IF count.hi > 0 \/ count.lo > Len(buf) THEN Len(buf) ELSE count.lo

\* binary.Read(crx, binary.LittleEndian, &header): the struct read from
\* twelve bytes.
ReadCrxHeader(b) ==
  [Magic |-> Take(b, 4),
   Version |-> U32LE(Take(Drop(b, 4), 4)),
   HeaderLen |-> U32LE(Take(Drop(b, 8), 4))]

\* The CRX header is taken off the buffer: binary.Read, the check of the
\* magic, crx.Next, zipBytes := crx.Bytes().
FetchCrxHeader ==
  /\ cmd = "fetch"
  /\ pc = "crxHeader"
  /\ IF Len(crx) < CrxHeaderSize
     THEN /\ stderr' = Append(stderr, Msg("Failed to parse CRX header: %s\n"))
          /\ Return(FALSE)
          /\ crx' = <<>>
          /\ UNCHANGED <<crxHdr, zipBytes>>
     ELSE /\ crxHdr' = ReadCrxHeader(crx)
          /\ IF ~LooksLikeCrx(crxHdr', intBits)
             THEN /\ stderr' = Append(stderr, Msg("Downloaded file doesn't look like a CRX\n"))
                  /\ Return(FALSE)
                  /\ crx' = Drop(crx, CrxHeaderSize)
                  /\ UNCHANGED zipBytes
             ELSE /\ crx' = Drop(Drop(crx, CrxHeaderSize),
                                 NextLen(Drop(crx, CrxHeaderSize), crxHdr'.HeaderLen))
                  /\ IF U32(NextLen(Drop(crx, CrxHeaderSize), crxHdr'.HeaderLen))
                          # crxHdr'.HeaderLen
                     THEN /\ stderr' = Append(stderr,
                                         Msg("Downloaded file doesn't look like a CRX\n"))
                          /\ Return(FALSE)
                          /\ UNCHANGED zipBytes
                     ELSE /\ zipBytes' = crx'
                          /\ pc' = "zip"
                          /\ UNCHANGED <<stderr, result>>
  /\ UNCHANGED <<inputVars, header, dumpVars, spkisVars, readAtVars,
                 crxURL, version, stdout>>

\* z, err := zip.NewReader(zipReader, int64(len(zipBytes))) ... return true.
\* What archive/zip finds in zipBytes is the input archive.
FetchZip ==
  /\ cmd = "fetch"
  /\ pc = "zip"
  /\ CASE archive.kind = "notZip" ->
            /\ stderr' = Append(stderr, Msg("Failed to parse ZIP file: %s\n"))
            /\ Return(FALSE)
            /\ UNCHANGED stdout
       [] archive.kind = "noCrlSet" ->
            /\ stderr' = Append(stderr, Msg("Downloaded CRX didn't contain a CRLSet\n"))
            /\ Return(FALSE)
            /\ UNCHANGED stdout
       [] archive.kind = "openError" ->
            /\ stderr' = Append(stderr, Msg("Failed to open crl-set in ZIP: %s\n"))
            /\ Return(FALSE)
            /\ UNCHANGED stdout
       [] archive.kind = "crlSet" ->
            /\ stdout' = Append(stdout, archive.crlSet)
            /\ Return(TRUE)
            /\ UNCHANGED stderr
  /\ UNCHANGED <<inputVars, header, dumpVars, spkisVars, readAtVars, fetchVars>>

fetch ==
  \/ FetchVersion
  \/ FetchCrx
  \/ FetchCrxHeader
  \/ FetchZip

\* The apps a version reply lists.
Apps ==
  {[AppId |-> id, URL |-> u, Version |-> "56"] :
     id \in {crlSetAppId, "other"}, u \in {"", "http://host/crl-set.crx.data"}}

VersionReplies ==
  {[kind |-> k, apps |-> <<>>] : k \in {"getError", "readError", "xmlError", "reply"}}
  \cup {[kind |-> "reply", apps |-> <<a>>] : a \in Apps}
  \cup {[kind |-> "reply", apps |-> <<a, b>>] : a \in Apps, b \in Apps}

\* A reply that names the CRX to download.
VersionOk ==
  [kind |-> "reply",
   apps |-> <<[AppId |-> crlSetAppId, URL |-> "http://host/crl-set.crx.data",
               Version |-> "56"]>>]

\* What archive/zip can find in the bytes after the CRX header.
Archives ==
  {[kind |-> k, crlSet |-> <<>>] : k \in {"notZip", "noCrlSet", "openError"}}
  \cup {[kind |-> "crlSet", crlSet |-> EncodeFile(TextEmptyObject, <<>>)]}

\* The first four bytes of the downloads: the magic, the magic with its last
\* byte changed, the magic of a ZIP file.
Magics == {MagicCr24, Str(<<"C", "r", "2", "5">>), <<80, 75, 3, 4>>}

\* The header lengths of the downloads: none, less than, equal to and more
\* than the bytes that follow, and one with the top bit set.
HeaderLens == {U32(0), U32(1), U32(MaxPayload), U32(MaxPayload + 1),
               [hi |-> 32768, lo |-> 0]}

\* The bytes of a download: magic, version 3, header length, and MaxPayload
\* bytes after them.
CrxBytes(magic, headerLen) ==
  magic \o U32Bytes(U32(3)) \o U32Bytes(headerLen) \o Repeat(7, MaxPayload)

InitFetch ==
  /\ cmd = "fetch"
  /\ NoFile
  /\ NoReadAt
  /\ intBits \in {32, 64}
  /\ \/ /\ versionReply \in VersionReplies
        /\ crxReply \in {[kind |-> k, bytes |-> <<>>] : k \in {"getError", "readError"}}
        /\ archive = [kind |-> "notZip", crlSet |-> <<>>]
     \/ /\ versionReply = VersionOk
        /\ archive \in Archives
        /\ \E magic \in Magics, headerLen \in HeaderLens :
             \E kept \in 0..Len(CrxBytes(magic, headerLen)) :
               crxReply = [kind |-> "bytes",
                           bytes |-> Take(CrxBytes(magic, headerLen), kept)]
  /\ Start

NextFetch == fetch

SpecFetch == InitFetch /\ [][NextFetch]_vars

\* fetch has ended after it downloaded the bytes of crxReply.
Downloaded ==
  /\ cmd = "fetch"
  /\ pc = "done"
  /\ crxReply.kind = "bytes"
  /\ versionReply = VersionOk

\* The messages of a fetch that ended with the given message about the
\* downloaded bytes.
FailedWith(text) ==
  /\ result = FALSE
  /\ stdout = <<>>
  /\ stderr = <<[text |-> "Downloading CRLSet version %s\n", arg |-> "56"],
                [text |-> text, arg |-> <<>>]>>

StartsWithMagic(b) == Len(b) >= 4 /\ SubSeq(b, 1, 4) = <<67, 114, 50, 52>>

\* C7 as stated: a download that does not start with "Cr24" fails with the
\* not-a-container error whatever follows its first four bytes and however
\* long it is.
C7_AnyLength ==
  (Downloaded /\ ~StartsWithMagic(crxReply.bytes)) =>
    FailedWith("Downloaded file doesn't look like a CRX\n")

\* C7: a download of twelve bytes or more that does not start with "Cr24"
\* fails with the not-a-container error and no other, whatever follows its
\* first four bytes; a download of less than twelve bytes fails with the
\* error of the header parse, whatever its first bytes are.
C7_NotAContainer ==
  Downloaded =>
    /\ (Len(crxReply.bytes) >= 12 /\ ~StartsWithMagic(crxReply.bytes)) =>
         FailedWith("Downloaded file doesn't look like a CRX\n")
    /\ Len(crxReply.bytes) < 12 =>
         FailedWith("Failed to parse CRX header: %s\n")

\* A download of the full length that starts with the magic of a ZIP file
\* was refused as no container.
C7_Witness ==
  /\ Downloaded
  /\ Len(crxReply.bytes) = 12 + MaxPayload
  /\ SubSeq(crxReply.bytes, 1, 4) = <<80, 75, 3, 4>>
  /\ crxHdr.HeaderLen = U32(1)
  /\ FailedWith("Downloaded file doesn't look like a CRX\n")

====
